---- MODULE Spec2Model ----
(***************************************************************************)
(* The in-memory tabular data engine of the OpenElectricity client:        *)
(* DataTable (src/src/datatable.ts, the cached class of lines 316-756),    *)
(* its materialization from network time series and its query operations.  *)
(*                                                                         *)
(* Values.  A JavaScript value is a record [k, s, n, d]: k is the type,    *)
(* s the text of a string or boolean, n/d the number as a fraction in      *)
(* lowest terms (exact arithmetic: the rounding of IEEE doubles is not     *)
(* modelled).  A Date is its instant, counted in hours.  A row is a        *)
(* function from the keys the object has to their values; an array of rows *)
(* is an object of the heap `arrays`, named by its index, so that two      *)
(* tables (or a table and a cache) holding the same array are visible.     *)
(***************************************************************************)
EXTENDS Integers, Sequences, FiniteSets, TLC

VARIABLES
    arrays,     \* the heap of row arrays: arrays[id] is a sequence of rows
    tables,     \* the DataTable objects created so far, in creation order
    lastCall,   \* the last call made by the consumer, with its result
    calls       \* the number of query calls made so far

vars == <<arrays, tables, lastCall, calls>>

(***************************************************************************)
(* Bounds of the model.                                                    *)
(***************************************************************************)
MaxCalls == 2       \* query calls made on the tables of one run
MaxPoints == 2      \* data points in one payload
MaxWidePoints == 3  \* data points in one payload of the longer tables

(***************************************************************************)
(* JavaScript values.                                                      *)
(***************************************************************************)
Str(s) == [k |-> "string", s |-> s, n |-> 0, d |-> 1]

Bool(b) == [k |-> "boolean", s |-> IF b THEN "true" ELSE "false", n |-> 0, d |-> 1]

Int2Num(i) == [k |-> "number", s |-> "", n |-> i, d |-> 1]

Null == [k |-> "null", s |-> "", n |-> 0, d |-> 1]

Undefined == [k |-> "undefined", s |-> "", n |-> 0, d |-> 1]

DateOf(t) == [k |-> "date", s |-> "", n |-> t, d |-> 1]

IsNum(v) == v.k = "number"

Abs(i) == IF i < 0 THEN -i ELSE i

RECURSIVE Gcd(_, _)
Gcd(a, b) == IF b = 0 THEN a ELSE Gcd(b, a % b)

\* the fraction n/d (d > 0) in lowest terms
Frac(n, d) ==
    LET g == Gcd(Abs(n), d)
    IN  [k |-> "number", s |-> "", n |-> n \div g, d |-> d \div g]

\* a + b of two numbers
NumAdd(a, b) == Frac(a.n * b.d + b.n * a.d, a.d * b.d)

\* a / c for a number a and a count c > 0
NumDivInt(a, c) == Frac(a.n, a.d * c)

NumLess(a, b) == a.n * b.d < b.n * a.d

NumLeq(a, b) == a.n * b.d <= b.n * a.d

\* `${v}`: the text a template literal gives a value.  A fraction that is
\* no integer is written n/d: that text is, like the decimal one, different
\* for different numbers.
TemplateString(v) ==
    CASE v.k = "string" -> v.s
      [] v.k = "boolean" -> v.s
      [] v.k = "null" -> "null"
      [] v.k = "undefined" -> "undefined"
      [] v.k = "number" ->
            IF v.d = 1 THEN ToString(v.n) ELSE ToString(v.n) \o "/" \o ToString(v.d)
      [] OTHER -> "date" \o ToString(v.n)

(***************************************************************************)
(* Rows: objects with string keys.                                         *)
(***************************************************************************)
\* row[key], undefined when the object has no such key
Get(row, key) == IF key \in DOMAIN row THEN row[key] ELSE Undefined

\* row[key] = v
Put(row, key, v) == [c \in (DOMAIN row) \cup {key} |-> IF c = key THEN v ELSE row[c]]

\* Array.prototype.join("_") over strings
RECURSIVE JoinUnderscore(_)
JoinUnderscore(parts) ==
    IF parts = <<>> THEN ""
    ELSE IF Len(parts) = 1 THEN parts[1]
    ELSE parts[1] \o "_" \o JoinUnderscore(Tail(parts))

\* Date.prototype.toISOString, one text per instant
ToISOString(t) == "T" \o ToString(t)

(***************************************************************************)
(* Network time reconstruction.  A timestamp string is its wall-clock      *)
(* reading (hours) and its zone suffix ("" when zone-naive).               *)
(***************************************************************************)
\* the hours of an offset string "+HH:MM", or of "+HHMM" as Date reads it
OffsetHours(offset) ==
    CASE offset = "+10:00" -> 10
      [] offset = "+08:00" -> 8
      [] offset = "+0800" -> 8
      [] OTHER -> 0

\* the suffixes the pattern /\.\d+Z$|\.\d+[+-]\d+:\d+$|Z$|[+-]\d+:\d+$/ matches
MatchedZones == {"Z", "+10:00", "+08:00", "+00:00"}

\* createNetworkDate(isoString, timezoneOffset): a matched suffix is replaced
\* by the offset; a string without one is left as it is and `new Date` reads
\* it in the zone of the process (localZone hours east of UTC); a suffix the
\* pattern does not match stays in the string and `new Date` reads the
\* string at that offset of its own.
createNetworkDate(isoString, timezoneOffset, localZone) ==
    IF isoString.zone \in MatchedZones
    THEN isoString.wall - OffsetHours(timezoneOffset)
    ELSE IF isoString.zone = ""
         THEN isoString.wall - localZone
         ELSE isoString.wall - OffsetHours(isoString.zone)

\* `new Date` of a text that is no date is an Invalid Date; such a text has
\* the zone field "malformed"
InvalidDate(isoString) == isoString.zone = "malformed"

(***************************************************************************)
(* The DataTable constructor and its indexes.                              *)
(***************************************************************************)
\* the position of the entry with key `key` in a Map kept as a sequence of
\* <<key, value>> pairs in insertion order, 0 when there is none
RECURSIVE MapFind(_, _, _)
MapFind(map, key, i) ==
    IF i > Len(map) THEN 0
    ELSE IF map[i][1] = key THEN i
    ELSE MapFind(map, key, i + 1)

MapHas(map, key) == MapFind(map, key, 1) # 0

MapGet(map, key) == map[MapFind(map, key, 1)][2]

\* Map.prototype.set: a present key keeps its place
MapSet(map, key, value) ==
    IF MapHas(map, key)
    THEN [map EXCEPT ![MapFind(map, key, 1)] = <<key, value>>]
    ELSE Append(map, <<key, value>>)

\* the index of one column: Map<value, rows>, null and Date values skipped
RECURSIVE IndexColumn(_, _, _)
IndexColumn(column, rows, columnIndex) ==
    IF rows = <<>> THEN columnIndex
    ELSE LET row == Head(rows)
             value == Get(row, column)
         IN  IF value.k = "null" \/ value.k = "date"
             THEN IndexColumn(column, Tail(rows), columnIndex)
             ELSE IndexColumn(column, Tail(rows),
                      MapSet(columnIndex, value,
                          IF MapHas(columnIndex, value)
                          THEN Append(MapGet(columnIndex, value), row)
                          ELSE <<row>>))

\* createColumnIndexes: one index per grouping column
RECURSIVE createColumnIndexes(_, _, _)
createColumnIndexes(groupings, rows, indexes) ==
    IF groupings = <<>> THEN indexes
    ELSE createColumnIndexes(Tail(groupings), rows,
             MapSet(indexes, Head(groupings), IndexColumn(Head(groupings), rows, <<>>)))

\* new DataTable(rows, groupings, metrics): `rowsId` names the array handed
\* in, which the table keeps (this.rows = rows); `rows` is its content at
\* that moment, from which the indexes are built.  The private rowsMap is
\* read by the materialization only and is modelled there.
NewDataTable(rowsId, rows, groupings, metrics) ==
    [ rows |-> rowsId,
      groupings |-> groupings,
      metrics |-> metrics,
      cache |-> [ sortedRows |-> <<>>,
                  groupedRows |-> <<>>,
                  latestTimestamp |-> Undefined,
                  columnIndexes |-> createColumnIndexes(groupings, rows, <<>>) ] ]

(***************************************************************************)
(* Row materialization: DataTable.fromNetworkTimeSeries.                   *)
(***************************************************************************)
RECURSIVE Concat(_)
Concat(seqs) == IF seqs = <<>> THEN <<>> ELSE Head(seqs) \o Concat(Tail(seqs))

\* the data points in the order of the three nested forEach loops
DataPoints(data) ==
    Concat([s \in 1..Len(data) |->
        Concat([r \in 1..Len(data[s].results) |->
            [p \in 1..Len(data[s].results[r].data) |->
                [ metric |-> data[s].metric,
                  offset |-> data[s].network_timezone_offset,
                  columns |-> data[s].results[r].columns,
                  timestamp |-> data[s].results[r].data[p][1],
                  value |-> data[s].results[r].data[p][2] ]]])])

\* an engine whose toISOString answers for an Invalid Date as well
toISOStringNeverThrows(data) == FALSE

\* date.toISOString() of an Invalid Date throws a RangeError: some point of
\* the payload makes the loops of fromNetworkTimeSeries end that way
toISOStringThrows(data) ==
    \E p \in 1..Len(DataPoints(data)) : InvalidDate(DataPoints(data)[p].timestamp)

\* the metrics map after the first forEach
RECURSIVE CollectMetrics(_, _)
CollectMetrics(data, metrics) ==
    IF data = <<>> THEN metrics
    ELSE CollectMetrics(Tail(data), MapSet(metrics, Head(data).metric, Head(data).unit))

\* rowKey: the ISO text of the date and `${k}:${v}` of every column, joined by "_"
RowKey(date, columns) ==
    JoinUnderscore(<<ToISOString(date)>> \o
        [i \in 1..Len(columns) |-> columns[i][1] \o ":" \o TemplateString(columns[i][2])])

\* { ...columns } spread into a row
RECURSIVE Spread(_, _)
Spread(row, columns) ==
    IF columns = <<>> THEN row
    ELSE Spread(Put(row, Head(columns)[1], Head(columns)[2]), Tail(columns))

\* One data point: getRowByKey, then the new or the updated row, then
\* setRowByKey.  `st.rows` is table.rows; `st.rowsMap` maps a key to the
\* position in table.rows of the row object it holds.
MergePoint(st, pt, localZone) ==
    LET date == createNetworkDate(pt.timestamp, pt.offset, localZone)
        rowKey == RowKey(date, pt.columns)
    IN  IF MapHas(st.rowsMap, rowKey)
        THEN LET i == MapGet(st.rowsMap, rowKey)
             IN  [st EXCEPT !.rows[i] = Put(@, pt.metric, pt.value)]
        ELSE [ rows |-> Append(st.rows,
                   Put(Spread([c \in {"interval"} |-> DateOf(date)], pt.columns),
                       pt.metric, pt.value)),
               rowsMap |-> MapSet(st.rowsMap, rowKey, Len(st.rows) + 1) ]

RECURSIVE MergePoints(_, _, _)
MergePoints(st, points, localZone) ==
    IF points = <<>> THEN st
    ELSE MergePoints(MergePoint(st, Head(points), localZone), Tail(points), localZone)

\* an insertion that puts a row before the rows of its own interval
RECURSIVE InsertBeforeEqual(_, _)
InsertBeforeEqual(sorted, row) ==
    IF sorted = <<>> THEN <<row>>
    ELSE LET last == sorted[Len(sorted)]
         IN  IF last["interval"].n - row["interval"].n >= 0
             THEN Append(InsertBeforeEqual(SubSeq(sorted, 1, Len(sorted) - 1), row), last)
             ELSE Append(sorted, row)

\* rows.sort((a, b) => a.interval.getTime() - b.interval.getTime()): the
\* sort is stable, and this comparator is a total preorder
RECURSIVE InsertByInterval(_, _)
InsertByInterval(sorted, row) ==
    IF sorted = <<>> THEN <<row>>
    ELSE LET last == sorted[Len(sorted)]
         IN  IF last["interval"].n - row["interval"].n > 0
             THEN Append(InsertByInterval(SubSeq(sorted, 1, Len(sorted) - 1), row), last)
             ELSE Append(sorted, row)

RECURSIVE SortByInterval(_, _)
SortByInterval(rows, sorted) ==
    IF rows = <<>> THEN sorted
    ELSE SortByInterval(Tail(rows), InsertByInterval(sorted, Head(rows)))

\* the rows of the table fromNetworkTimeSeries returns
MaterializedRows(data, localZone) ==
    SortByInterval(
        MergePoints([rows |-> <<>>, rowsMap |-> <<>>], DataPoints(data), localZone).rows,
        <<>>)

\* the table fromNetworkTimeSeries returns: it was constructed over the
\* still empty array, so its column indexes are empty
fromNetworkTimeSeries(rowsId, data) ==
    NewDataTable(rowsId, <<>>, data[1].groupings, CollectMetrics(data, <<>>))

(***************************************************************************)
(* filter and tryIndexFilter.                                              *)
(***************************************************************************)
\* v > c for a number literal c: null counts as 0, true as 1, false as 0,
\* and undefined and the strings of the model are NaN
GreaterThan(v, c) ==
    CASE v.k = "number" -> v.n > c * v.d
      [] v.k = "null" -> 0 > c
      [] v.k = "boolean" -> (IF v.s = "true" THEN 1 ELSE 0) > c
      [] v.k = "date" -> v.n > c
      [] OTHER -> FALSE

\* the conditions the consumer passes to filter, by name
Conditions == {"renewable", "region_and_energy", "region_or_energy"}

\* condition(row)
Holds(condition, row) ==
    CASE condition = "renewable" ->
            \* (row) => row.renewable === true
            Get(row, "renewable") = Bool(TRUE)
      [] condition = "region_and_energy" ->
            \* (row) => row.network_region === "NSW1" && row.energy > 1
            Get(row, "network_region") = Str("NSW1") /\ GreaterThan(Get(row, "energy"), 1)
      [] condition = "region_or_energy" ->
            \* (row) => row.network_region === "NSW1" || row.energy > 1
            Get(row, "network_region") = Str("NSW1") \/ GreaterThan(Get(row, "energy"), 1)
      [] OTHER -> FALSE

\* Array.prototype.filter
RECURSIVE FilterRows(_, _)
FilterRows(rows, condition) ==
    IF rows = <<>> THEN <<>>
    ELSE IF Holds(condition, Head(rows))
         THEN <<Head(rows)>> \o FilterRows(Tail(rows), condition)
         ELSE FilterRows(Tail(rows), condition)

\* value === true ? false : value === false ? true : value === 0 ? 1 : 0
OtherValue(value) ==
    IF value = Bool(TRUE) THEN Bool(FALSE)
    ELSE IF value = Bool(FALSE) THEN Bool(TRUE)
    ELSE IF value = Int2Num(0) THEN Int2Num(1)
    ELSE Int2Num(0)

\* the inner loop of tryIndexFilter over the entries of one column index:
\* the position of the first entry taken for an equality check, 0 if none
RECURSIVE TryValues(_, _, _, _, _)
TryValues(column, columnIndex, firstRow, condition, i) ==
    IF i > Len(columnIndex) THEN 0
    ELSE LET value == columnIndex[i][1]
             testRow == Put(firstRow, column, value)
             otherValues == Put(testRow, column, OtherValue(value))
         IN  IF Holds(condition, testRow) /\ ~Holds(condition, otherValues)
             THEN i
             ELSE TryValues(column, columnIndex, firstRow, condition, i + 1)

\* tryIndexFilter: [found |-> FALSE] for null, else the rows of the index entry
RECURSIVE tryIndexFilter(_, _, _, _)
tryIndexFilter(columnIndexes, rows, condition, c) ==
    IF c > Len(columnIndexes) THEN [found |-> FALSE, rows |-> <<>>]
    ELSE IF Len(rows) = 0 THEN [found |-> FALSE, rows |-> <<>>]
    ELSE LET hit == TryValues(columnIndexes[c][1], columnIndexes[c][2], rows[1], condition, 1)
         IN  IF hit # 0
             THEN [found |-> TRUE, rows |-> columnIndexes[c][2][hit][2]]
             ELSE tryIndexFilter(columnIndexes, rows, condition, c + 1)

\* the rows of the table filter(condition) returns
filter(t, rows, condition) ==
    LET indexedFilter == tryIndexFilter(t.cache.columnIndexes, rows, condition, 1)
    IN  IF indexedFilter.found THEN indexedFilter.rows ELSE FilterRows(rows, condition)

(***************************************************************************)
(* select.                                                                 *)
(***************************************************************************)
Includes(columns, c) == \E i \in 1..Len(columns) : columns[i] = c

\* the projection without the `col in row` test: a listed key the row lacks
\* is written with the value undefined
SelectRowUnguarded(row, columns, newRow) ==
    [c \in (DOMAIN newRow) \cup {columns[i] : i \in 1..Len(columns)} |->
        IF \E i \in 1..Len(columns) : columns[i] = c THEN Get(row, c) ELSE newRow[c]]

\* the projection of one row: interval and the listed keys the row has
RECURSIVE SelectRow(_, _, _)
SelectRow(row, columns, newRow) ==
    IF columns = <<>> THEN newRow
    ELSE SelectRow(row, Tail(columns),
             IF Head(columns) \in DOMAIN row
             THEN Put(newRow, Head(columns), row[Head(columns)])
             ELSE newRow)

selectRows(rows, columns) ==
    [i \in 1..Len(rows) |->
        SelectRow(rows[i], columns, [c \in {"interval"} |-> rows[i]["interval"]])]

\* the metrics named in columns, in the order of the map
selectMetrics(metrics, columns) == SelectSeq(metrics, LAMBDA e : Includes(columns, e[1]))

\* columns.filter((c) => this.groupings.includes(c)): the caller's order
selectGroupingsCallerOrder(groupings, columns) ==
    SelectSeq(columns, LAMBDA c : \E i \in 1..Len(groupings) : groupings[i] = c)

\* this.groupings.filter((g) => columns.includes(g))
selectGroupings(groupings, columns) == SelectSeq(groupings, LAMBDA g : Includes(columns, g))

(***************************************************************************)
(* groupBy.                                                                *)
(***************************************************************************)
\* columns.map((col) => `${col}:${row[col]}`).join("_")
GroupKey(row, columns) ==
    JoinUnderscore([i \in 1..Len(columns) |->
        columns[i] \o ":" \o TemplateString(Get(row, columns[i]))])

\* `${columns.join("_")}_${aggregation}`
GroupCacheKey(columns, aggregation) == JoinUnderscore(columns) \o "_" \o aggregation

\* the single grouping pass: Map<groupKey, rows> in first-seen order
RECURSIVE GroupRows(_, _, _)
GroupRows(rows, columns, groups) ==
    IF rows = <<>> THEN groups
    ELSE LET row == Head(rows)
             groupKey == GroupKey(row, columns)
         IN  GroupRows(Tail(rows), columns,
                 MapSet(groups, groupKey,
                     IF MapHas(groups, groupKey)
                     THEN Append(MapGet(groups, groupKey), row)
                     ELSE <<row>>))

\* groupKeyMap's entry: the listed columns of the first row of the group
RECURSIVE GroupValues(_, _, _)
GroupValues(row, columns, acc) ==
    IF columns = <<>> THEN acc
    ELSE GroupValues(row, Tail(columns), Put(acc, Head(columns), Get(row, Head(columns))))

\* the values of one metric the aggregation keeps: neither null nor NaN
\* (NaN, which no JSON payload carries, is not in the model) nor a hole
ValidValues(groupRows, metric) ==
    LET cells == [i \in 1..Len(groupRows) |-> Get(groupRows[i], metric)]
    IN  SelectSeq(cells, LAMBDA v : v.k # "null" /\ v.k # "undefined")

\* values.reduce((a, b) => a + b, 0)
RECURSIVE SumValues(_, _)
SumValues(values, acc) ==
    IF values = <<>> THEN acc
    ELSE SumValues(Tail(values), NumAdd(acc, Head(values)))

\* the aggregate with the division made for "sum" as well
AggregateAlwaysMean(values, aggregation) ==
    IF Len(values) > 0
    THEN NumDivInt(SumValues(values, Int2Num(0)), Len(values))
    ELSE Null

\* the aggregate of one metric over one group
Aggregate(values, aggregation) ==
    IF Len(values) > 0
    THEN LET sum == SumValues(values, Int2Num(0))
         IN  IF aggregation = "sum" THEN sum ELSE NumDivInt(sum, Len(values))
    ELSE Null

RECURSIVE AggregateMetrics(_, _, _, _)
AggregateMetrics(newRow, groupRows, metricNames, aggregation) ==
    IF metricNames = <<>> THEN newRow
    ELSE AggregateMetrics(
             Put(newRow, Head(metricNames),
                 Aggregate(ValidValues(groupRows, Head(metricNames)), aggregation)),
             groupRows, Tail(metricNames), aggregation)

\* the output row of one group
GroupRow(groupRows, columns, metricNames, aggregation) ==
    AggregateMetrics(
        GroupValues(groupRows[1], columns,
            [c \in {"interval"} |-> groupRows[1]["interval"]]),
        groupRows, metricNames, aggregation)

MetricNames(metrics) == [i \in 1..Len(metrics) |-> metrics[i][1]]

\* Array.from(cachedGroups.values()).flat()
CachedGroupRows(cachedGroups) ==
    Concat([i \in 1..Len(cachedGroups) |-> cachedGroups[i][2]])

\* groupBy with a row of totals for a receiver without rows: one group with
\* no member, every metric null
groupByTotalRow(t, rows, columns, aggregation) ==
    [ rows |-> IF rows = <<>>
               THEN <<[c \in {MetricNames(t.metrics)[m] : m \in 1..Len(t.metrics)} |-> Null]>>
               ELSE [g \in 1..Len(GroupRows(rows, columns, <<>>)) |->
                        GroupRow(GroupRows(rows, columns, <<>>)[g][2], columns,
                                 MetricNames(t.metrics), aggregation)],
      groupedRows |-> t.cache.groupedRows ]

\* groupBy(columns, aggregation): the rows of the returned table and the
\* receiver's groupedRows cache afterwards
groupBy(t, rows, columns, aggregation) ==
    LET cacheKey == GroupCacheKey(columns, aggregation)
    IN  IF MapHas(t.cache.groupedRows, cacheKey)
        THEN [ rows |-> CachedGroupRows(MapGet(t.cache.groupedRows, cacheKey)),
               groupedRows |-> t.cache.groupedRows ]
        ELSE LET groups == GroupRows(rows, columns, <<>>)
             IN  [ rows |-> [g \in 1..Len(groups) |->
                       GroupRow(groups[g][2], columns, MetricNames(t.metrics), aggregation)],
                   groupedRows |-> MapSet(t.cache.groupedRows, cacheKey, groups) ]

(***************************************************************************)
(* sortBy.                                                                 *)
(***************************************************************************)
\* the strings of the model in the order of their UTF-16 code units
StringOrder == <<"NSW1", "QLD1", "false", "true">>

StringRank(s) == CHOOSE i \in 1..Len(StringOrder) : StringOrder[i] = s

\* ToNumber of a value that is no string: [nan, n, d]
ToNumber(v) ==
    CASE v.k = "number" -> [nan |-> FALSE, n |-> v.n, d |-> v.d]
      [] v.k = "date" -> [nan |-> FALSE, n |-> v.n, d |-> 1]
      [] v.k = "boolean" -> [nan |-> FALSE, n |-> IF v.s = "true" THEN 1 ELSE 0, d |-> 1]
      [] v.k = "null" -> [nan |-> FALSE, n |-> 0, d |-> 1]
      [] OTHER -> [nan |-> TRUE, n |-> 0, d |-> 1]

\* a < b: two strings by code units, else both as numbers (the strings of
\* the model are no numerals, so they are NaN), false when either is NaN
LessThan(a, b) ==
    IF a.k = "string" /\ b.k = "string"
    THEN StringRank(a.s) < StringRank(b.s)
    ELSE LET x == ToNumber(a)
             y == ToNumber(b)
         IN  ~x.nan /\ ~y.nan /\ x.n * y.d < y.n * x.d

\* the comparator of sortBy: -1, 0 or 1
RECURSIVE CompareRows(_, _, _, _)
CompareRows(a, b, columns, ascending) ==
    IF columns = <<>> THEN 0
    ELSE LET aVal == Get(a, Head(columns))
             bVal == Get(b, Head(columns))
         IN  IF aVal = Null /\ bVal = Null
                 THEN CompareRows(a, b, Tail(columns), ascending)
             ELSE IF aVal = Null THEN (IF ascending THEN -1 ELSE 1)
             ELSE IF bVal = Null THEN (IF ascending THEN 1 ELSE -1)
             ELSE IF LessThan(aVal, bVal) THEN (IF ascending THEN -1 ELSE 1)
             ELSE IF LessThan(bVal, aVal) THEN (IF ascending THEN 1 ELSE -1)
             ELSE CompareRows(a, b, Tail(columns), ascending)

\* Array.prototype.sort with that comparator: a stable insertion sort
RECURSIVE InsertRow(_, _, _, _)
InsertRow(sorted, row, columns, ascending) ==
    IF sorted = <<>> THEN <<row>>
    ELSE LET last == sorted[Len(sorted)]
         IN  IF CompareRows(last, row, columns, ascending) > 0
             THEN Append(InsertRow(SubSeq(sorted, 1, Len(sorted) - 1), row, columns, ascending),
                         last)
             ELSE Append(sorted, row)

RECURSIVE SortRows(_, _, _, _)
SortRows(rows, columns, ascending, sorted) ==
    IF rows = <<>> THEN sorted
    ELSE SortRows(Tail(rows), columns, ascending,
             InsertRow(sorted, Head(rows), columns, ascending))

\* The comparator is consistent over the rows (ECMAScript, Array.prototype.sort):
\* antisymmetric, and each of "equal", "before" and "after" transitive.  It is
\* not when a row lacks a column: undefined compares equal to every number.
ConsistentComparator(rows, columns, ascending) ==
    LET R == {rows[i] : i \in 1..Len(rows)}
        cmp(a, b) == CompareRows(a, b, columns, ascending)
    IN  /\ \A a, b \in R : cmp(a, b) = -cmp(b, a)
        /\ \A a, b, c \in R :
               /\ (cmp(a, b) = 0 /\ cmp(b, c) = 0) => cmp(a, c) = 0
               /\ (cmp(a, b) < 0 /\ cmp(b, c) < 0) => cmp(a, c) < 0
               /\ (cmp(a, b) > 0 /\ cmp(b, c) > 0) => cmp(a, c) > 0

\* the orders of the elements of an array
RowOrders(rows) ==
    LET n == Len(rows)
    IN  {[i \in 1..n |-> rows[p[i]]] :
            p \in {q \in [1..n -> 1..n] : \A i, j \in 1..n : q[i] = q[j] => i = j}}

\* The arrays [...this.rows].sort(comparator) can give.  With a consistent
\* comparator it is the stable sort; with one that is not, the order is
\* left to the engine, and the stable insertion order (which V8 gives for
\* short arrays) is one of them.
SortOutcomes(rows, columns, ascending) ==
    IF ConsistentComparator(rows, columns, ascending)
    THEN {SortRows(rows, columns, ascending, <<>>)}
    ELSE RowOrders(rows)

\* `${columns.join("_")}_${ascending}`
SortCacheKey(columns, ascending) ==
    JoinUnderscore(columns) \o "_" \o (IF ascending THEN "true" ELSE "false")

\* this.rows.sort(comparator) in the place of [...this.rows].sort(comparator):
\* the receiver's own array is sorted before it is copied
SortedInPlace(heap, rowsId, sortedRows) ==
    Append([heap EXCEPT ![rowsId] = sortedRows], sortedRows)

\* The heap after [...this.rows].sort(comparator): the sorted copy is a new
\* array, the last of the heap; the receiver's array is left as it is.
SortedCopy(heap, rowsId, sortedRows) == Append(heap, sortedRows)

(***************************************************************************)
(* describe and getLatestTimestamp.                                        *)
(***************************************************************************)
NumSub(a, b) == Frac(a.n * b.d - b.n * a.d, a.d * b.d)

NumMul(a, b) == Frac(a.n * b.n, a.d * b.d)

\* values.sort((a, b) => a - b)
RECURSIVE InsertNum(_, _)
InsertNum(sorted, v) ==
    IF sorted = <<>> THEN <<v>>
    ELSE LET last == sorted[Len(sorted)]
         IN  IF NumLess(v, last)
             THEN Append(InsertNum(SubSeq(sorted, 1, Len(sorted) - 1), v), last)
             ELSE Append(sorted, v)

RECURSIVE SortNums(_, _)
SortNums(values, sorted) ==
    IF values = <<>> THEN sorted
    ELSE SortNums(Tail(values), InsertNum(sorted, Head(values)))

\* the sum of (value - mean) ** 2
RECURSIVE SumSquares(_, _, _)
SumSquares(values, mean, acc) ==
    IF values = <<>> THEN acc
    ELSE SumSquares(Tail(values), mean,
             NumAdd(acc, NumMul(NumSub(Head(values), mean), NumSub(Head(values), mean))))

\* the statistics with the quantiles at Math.floor((count - 1) * q)
ColumnStatsLowerRank(values) ==
    LET sorted == SortNums(values, <<>>)
        count == Len(sorted)
        mean == NumDivInt(SumValues(sorted, Int2Num(0)), count)
    IN  [ count |-> count,
          mean |-> mean,
          variance |-> NumDivInt(SumSquares(sorted, mean, Int2Num(0)), count),
          min |-> sorted[1],
          q25 |-> sorted[((count - 1) \div 4) + 1],
          median |-> sorted[((count - 1) \div 2) + 1],
          q75 |-> sorted[((3 * (count - 1)) \div 4) + 1],
          max |-> sorted[count] ]

\* the statistics of one column; std is Math.sqrt(variance) and is kept as
\* its square.  Math.floor(count * q) for q = 0.25, 0.5, 0.75 is exact.
ColumnStats(values) ==
    LET sorted == SortNums(values, <<>>)
        count == Len(sorted)
        mean == NumDivInt(SumValues(sorted, Int2Num(0)), count)
    IN  [ count |-> count,
          mean |-> mean,
          variance |-> NumDivInt(SumSquares(sorted, mean, Int2Num(0)), count),
          min |-> sorted[1],
          q25 |-> sorted[(count \div 4) + 1],
          median |-> sorted[(count \div 2) + 1],
          q75 |-> sorted[((3 * count) \div 4) + 1],
          max |-> sorted[count] ]

\* the numbers of one column over all rows
ColumnValues(rows, column) ==
    SelectSeq([i \in 1..Len(rows) |-> Get(rows[i], column)], LAMBDA v : v.k = "number")

\* describe() with the numeric columns taken from every row, not the first
describeAnyRow(rows) ==
    LET numericColumns ==
            {key \in UNION {DOMAIN rows[i] : i \in 1..Len(rows)} :
                \E i \in 1..Len(rows) : Get(rows[i], key).k = "number"}
    IN  [column \in numericColumns |-> ColumnStats(ColumnValues(rows, column))]

\* describe(): the statistics of every key that holds a number in the first row
describe(rows) ==
    LET numericColumns ==
            IF rows = <<>> THEN {}
            ELSE {key \in DOMAIN rows[1] : rows[1][key].k = "number"}
    IN  [column \in {c \in numericColumns : ColumnValues(rows, c) # <<>>} |->
            ColumnStats(ColumnValues(rows, column))]

\* Math.max() of no argument
NegInfinity == [k |-> "number", s |-> "-Infinity", n |-> 0, d |-> 1]

\* the interval of the last row, the latest one only in a table sorted by time
LastInterval(rows, acc) ==
    IF rows = <<>> THEN acc ELSE Int2Num(rows[Len(rows)]["interval"].n)

\* Math.max(...this.rows.map((r) => r.interval.getTime()))
RECURSIVE MaxInterval(_, _)
MaxInterval(rows, acc) ==
    IF rows = <<>> THEN acc
    ELSE MaxInterval(Tail(rows),
             IF acc = NegInfinity \/ acc.n < Head(rows)["interval"].n
             THEN Int2Num(Head(rows)["interval"].n)
             ELSE acc)

\* !v for the values the latestTimestamp cache holds
Falsy(v) == v.k = "undefined" \/ v = Int2Num(0)

\* the latestTimestamp cache after getLatestTimestamp(), which is returned
getLatestTimestamp(t, rows) ==
    IF Falsy(t.cache.latestTimestamp)
    THEN MaxInterval(rows, NegInfinity)
    ELSE t.cache.latestTimestamp

(***************************************************************************)
(* The payloads handed to createDataTable.                                 *)
(***************************************************************************)
Groupings == <<"network_region", "renewable">>

\* result.columns of a block: Record<string, string | boolean>
ColumnsOf(region, renewable) ==
    << <<"network_region", Str(region)>>, <<"renewable", renewable>> >>

BlockColumns ==
    { ColumnsOf("NSW1", Bool(TRUE)), ColumnsOf("NSW1", Str("true")),
      ColumnsOf("QLD1", Bool(FALSE)) }

\* timestamp strings: zone-naive network time, and one with a Z suffix
Timestamps ==
    { [wall |-> 24, zone |-> ""], [wall |-> 48, zone |-> ""], [wall |-> 24, zone |-> "Z"] }

\* number | null
PointValues == {Null, Int2Num(1), Int2Num(3)}

MetricUnits == << <<"energy", "MWh">>, <<"emissions", "t">> >>

\* the zone of the process: UTC, or Australian eastern time
ProcessZones == {0, 10}

\* network_timezone_offset of the payload's network (NEM, WEM)
NetworkOffsets == {"+10:00", "+08:00"}

\* one data point of a payload, with the series and the block it is in
FlatPoints ==
    [ metric : {"energy"}, columns : BlockColumns,
      timestamp : Timestamps, value : PointValues ]
    \cup
    [ metric : {"emissions"}, columns : {ColumnsOf("NSW1", Bool(TRUE))},
      timestamp : {[wall |-> 24, zone |-> ""]}, value : {Null, Int2Num(3)} ]

\* the sequences of at most n elements of S
RECURSIVE SeqsUpTo(_, _)
SeqsUpTo(S, n) ==
    IF n = 0 THEN {<<>>}
    ELSE LET shorter == SeqsUpTo(S, n - 1)
         IN  shorter \cup {Append(q, x) : q \in {r \in shorter : Len(r) = n - 1}, x \in S}

\* the distinct elements of a sequence, in the order of first appearance
RECURSIVE Distinct(_, _)
Distinct(seq, acc) ==
    IF seq = <<>> THEN acc
    ELSE Distinct(Tail(seq),
             IF \E i \in 1..Len(acc) : acc[i] = Head(seq) THEN acc ELSE Append(acc, Head(seq)))

\* the series of one metric: one result block per grouping-key combination
SeriesOf(points, m, offset) ==
    LET mine == SelectSeq(points, LAMBDA p : p.metric = MetricUnits[m][1])
        blocks == Distinct([i \in 1..Len(mine) |-> mine[i].columns], <<>>)
    IN  [ metric |-> MetricUnits[m][1],
          unit |-> MetricUnits[m][2],
          groupings |-> Groupings,
          network_timezone_offset |-> offset,
          results |-> [b \in 1..Len(blocks) |->
              LET data == SelectSeq(mine, LAMBDA p : p.columns = blocks[b])
              IN  [ columns |-> blocks[b],
                    data |-> [i \in 1..Len(data) |-> <<data[i].timestamp, data[i].value>>] ]] ]

\* the payload (INetworkTimeSeries[]) holding the given points
PayloadOf(points, offset) ==
    SelectSeq([m \in 1..Len(MetricUnits) |-> SeriesOf(points, m, offset)],
              LAMBDA series : series.results # <<>>)

Payloads ==
    {PayloadOf(points, offset) : points \in SeqsUpTo(FlatPoints, MaxPoints),
                                 offset \in NetworkOffsets}

(***************************************************************************)
(* Payloads of longer tables: one region, three intervals, and groupings    *)
(* that name every column of the blocks or only the region (a block's       *)
(* columns can hold keys the groupings do not list).                        *)
(***************************************************************************)
WideGroupings == { <<"network_region", "renewable">>, <<"network_region">> }

WidePoints ==
    [ metric : {"energy"}, columns : {ColumnsOf("NSW1", Bool(TRUE))},
      timestamp : {[wall |-> 24, zone |-> ""], [wall |-> 48, zone |-> ""],
                   [wall |-> 72, zone |-> ""]},
      value : {Null, Int2Num(1), Int2Num(2), Int2Num(3)} ]
    \cup
    [ metric : {"emissions"}, columns : {ColumnsOf("NSW1", Bool(TRUE))},
      timestamp : {[wall |-> 48, zone |-> ""]}, value : {Int2Num(3)} ]

WidePayloads ==
    { [s \in 1..Len(data) |-> [data[s] EXCEPT !.groupings = g]] :
        data \in {PayloadOf(points, "+10:00") : points \in SeqsUpTo(WidePoints, MaxWidePoints)},
        g \in WideGroupings }

(***************************************************************************)
(* Payloads for the reconstruction of time: one block whose timestamps are *)
(* zone-naive, end in Z, in an offset with a colon (+10:00) or without one *)
(* (+0800), or are no dates at all.                                        *)
(***************************************************************************)
MaxTimePoints == 2

TimeTexts ==
    [ wall : {24, 48}, zone : {"", "Z", "+10:00", "+0800"} ]
    \cup { [wall |-> 0, zone |-> "malformed"] }

TimePoints ==
    [ metric : {"energy"}, columns : {ColumnsOf("NSW1", Bool(TRUE))},
      timestamp : TimeTexts, value : {Int2Num(1)} ]

TimePayloads ==
    {PayloadOf(points, offset) : points \in SeqsUpTo(TimePoints, MaxTimePoints),
                                 offset \in NetworkOffsets}

(***************************************************************************)
(* Payloads that give values again: one region at one instant, the         *)
(* renewable column true or "true", energy given up to three times and     *)
(* emissions once.                                                         *)
(***************************************************************************)
MaxMergePoints == 3

MergePointsGiven ==
    [ metric : {"energy"},
      columns : {ColumnsOf("NSW1", Bool(TRUE)), ColumnsOf("NSW1", Str("true"))},
      timestamp : {[wall |-> 24, zone |-> ""]}, value : {Null, Int2Num(1), Int2Num(2)} ]
    \cup
    [ metric : {"emissions"}, columns : {ColumnsOf("NSW1", Bool(TRUE))},
      timestamp : {[wall |-> 24, zone |-> ""]}, value : {Int2Num(3)} ]

MergePayloads ==
    {PayloadOf(points, "+10:00") : points \in SeqsUpTo(MergePointsGiven, MaxMergePoints)}

(***************************************************************************)
(* The arguments the consumer passes.                                      *)
(***************************************************************************)
SelectColumns ==
    { <<"interval", "network_region", "energy">>,
      <<"renewable", "network_region", "energy", "emissions">> }

GroupColumns == { <<"network_region">>, <<"renewable">>, <<"network_region", "renewable">> }

Aggregations == {"sum", "mean"}

SortColumns == { <<"energy">>, <<"network_region", "renewable">> }

(***************************************************************************)
(* The state machine: the consumer materializes one table and then calls   *)
(* query operations on any table it holds.                                 *)
(***************************************************************************)
NoCall ==
    [ op |-> "none", recv |-> 0, ret |-> 0, columns |-> <<>>, option |-> "",
      data |-> <<>>, localZone |-> 0, threw |-> FALSE, value |-> Undefined,
      stats |-> <<>> ]

Init ==
    /\ arrays = <<>>
    /\ tables = <<>>
    /\ lastCall = NoCall
    /\ calls = 0

\* getRows() of table i
RowsOf(i) == arrays[tables[i].rows]

\* createDataTable(data) for a payload of `payloads` in a process of one of
\* the zones: data[0].groupings of an empty payload is a TypeError, and the
\* toISOString of an Invalid Date a RangeError; either leaves no table
createDataTable(payloads, zones) ==
    /\ tables = <<>>
    /\ lastCall.op = "none"
    /\ \E data \in payloads, localZone \in zones :
        IF data = <<>> \/ toISOStringThrows(data)
        THEN /\ lastCall' = [NoCall EXCEPT !.op = "createDataTable", !.threw = TRUE,
                                           !.data = data]
             /\ UNCHANGED <<arrays, tables, calls>>
        ELSE /\ calls' = calls
             /\ arrays' = <<MaterializedRows(data, localZone)>>
             /\ tables' = <<fromNetworkTimeSeries(1, data)>>
             /\ lastCall' = [NoCall EXCEPT !.op = "createDataTable", !.ret = 1,
                                           !.data = data, !.localZone = localZone]

Materialize == createDataTable(Payloads, ProcessZones)

\* the same over the payloads of longer tables, in a process on eastern time
MaterializeWide == createDataTable(WidePayloads, {10})

\* tables[i].filter(condition)
Filter ==
    /\ calls < MaxCalls
    /\ calls' = calls + 1
    /\ \E i \in 1..Len(tables), condition \in Conditions :
        LET t == tables[i]
            newRows == filter(t, RowsOf(i), condition)
        IN  /\ arrays' = Append(arrays, newRows)
            /\ tables' = Append(tables,
                   NewDataTable(Len(arrays) + 1, newRows, t.groupings, t.metrics))
            /\ lastCall' = [NoCall EXCEPT !.op = "filter", !.recv = i,
                                          !.ret = Len(tables) + 1, !.option = condition]

\* every column name of a table: [...getGroupings(), ...getMetrics().keys()]
ColumnNames(t) == t.groupings \o MetricNames(t.metrics)

\* tables[i].select(columns)
Select ==
    /\ calls < MaxCalls
    /\ calls' = calls + 1
    /\ \E i \in 1..Len(tables) : \E columns \in SelectColumns \cup {ColumnNames(tables[i])} :
        LET t == tables[i]
            newRows == selectRows(RowsOf(i), columns)
        IN  /\ arrays' = Append(arrays, newRows)
            /\ tables' = Append(tables,
                   NewDataTable(Len(arrays) + 1, newRows,
                       selectGroupings(t.groupings, columns),
                       selectMetrics(t.metrics, columns)))
            /\ lastCall' = [NoCall EXCEPT !.op = "select", !.recv = i,
                                          !.ret = Len(tables) + 1, !.columns = columns]

\* tables[i].groupBy(columns, aggregation)
GroupBy ==
    /\ calls < MaxCalls
    /\ calls' = calls + 1
    /\ \E i \in 1..Len(tables), columns \in GroupColumns, aggregation \in Aggregations :
        LET t == tables[i]
            res == groupBy(t, RowsOf(i), columns, aggregation)
        IN  /\ arrays' = Append(arrays, res.rows)
            /\ tables' = Append([tables EXCEPT ![i].cache.groupedRows = res.groupedRows],
                   NewDataTable(Len(arrays) + 1, res.rows, columns, t.metrics))
            /\ lastCall' = [NoCall EXCEPT !.op = "groupBy", !.recv = i,
                                          !.ret = Len(tables) + 1, !.columns = columns,
                                          !.option = aggregation]

\* tables[i].sortBy(columns, ascending): a cached array is copied; a newly
\* sorted array is both kept in the cache and handed to the new table
SortBy ==
    /\ calls < MaxCalls
    /\ calls' = calls + 1
    /\ \E i \in 1..Len(tables), columns \in SortColumns, ascending \in BOOLEAN :
        LET t == tables[i]
            cacheKey == SortCacheKey(columns, ascending)
            hit == MapHas(t.cache.sortedRows, cacheKey)
            newId == Len(arrays) + 1
        IN  \E sortedRows \in SortOutcomes(RowsOf(i), columns, ascending) :
            LET heap == IF hit
                        THEN Append(arrays, arrays[MapGet(t.cache.sortedRows, cacheKey)])
                        ELSE SortedCopy(arrays, t.rows, sortedRows)
            IN  /\ arrays' = heap
                /\ tables' = Append(
                       IF hit THEN tables
                       ELSE [tables EXCEPT ![i].cache.sortedRows = MapSet(@, cacheKey, newId)],
                       NewDataTable(newId, heap[newId], t.groupings, t.metrics))
                /\ lastCall' = [NoCall EXCEPT !.op = "sortBy", !.recv = i,
                                              !.ret = Len(tables) + 1, !.columns = columns,
                                              !.option = IF ascending THEN "true" ELSE "false"]

\* tables[i].describe()
Describe ==
    /\ calls < MaxCalls
    /\ calls' = calls + 1
    /\ \E i \in 1..Len(tables) :
        /\ lastCall' = [NoCall EXCEPT !.op = "describe", !.recv = i,
                                      !.stats = describe(RowsOf(i))]
        /\ UNCHANGED <<arrays, tables>>

\* tables[i].getLatestTimestamp()
GetLatestTimestamp ==
    /\ calls < MaxCalls
    /\ calls' = calls + 1
    /\ \E i \in 1..Len(tables) :
        LET latest == getLatestTimestamp(tables[i], RowsOf(i))
        IN  /\ tables' = [tables EXCEPT ![i].cache.latestTimestamp = latest]
            /\ lastCall' = [NoCall EXCEPT !.op = "getLatestTimestamp", !.recv = i,
                                          !.value = latest]
            /\ UNCHANGED arrays

Next ==
    \/ Materialize
    \/ Filter
    \/ Select
    \/ GroupBy
    \/ SortBy
    \/ Describe
    \/ GetLatestTimestamp

Spec == Init /\ [][Next]_vars

\* the consumer of a longer table: projection, ordering and statistics
WideNext ==
    \/ MaterializeWide
    \/ Select
    \/ SortBy
    \/ Describe

WideSpec == Init /\ [][WideNext]_vars

\* Array.prototype.pop and Array.prototype.reverse
ChangedArray(rows, change) ==
    CASE change = "pop" -> SubSeq(rows, 1, Len(rows) - 1)
      [] change = "reverse" -> [i \in 1..Len(rows) |-> rows[Len(rows) + 1 - i]]
      [] OTHER -> rows

\* tables[i].getRows() hands out the rows array of the table itself, and the
\* consumer removes its last entry or reverses it in place
MutateRows ==
    /\ calls < MaxCalls
    /\ calls' = calls + 1
    /\ \E i \in 1..Len(tables), change \in {"pop", "reverse"} :
        /\ Len(RowsOf(i)) > 0
        /\ arrays' = [arrays EXCEPT ![tables[i].rows] = ChangedArray(@, change)]
        /\ lastCall' = [NoCall EXCEPT !.op = "getRows", !.recv = i, !.option = change]
        /\ UNCHANGED tables

\* the consumer that changes the row lists it was handed
AliasNext ==
    \/ MaterializeWide
    \/ SortBy
    \/ GroupBy
    \/ Filter
    \/ MutateRows

AliasSpec == Init /\ [][AliasNext]_vars

\* materialization alone, over the payloads that give values again
MaterializeMerge == createDataTable(MergePayloads, {10})

MergeNext == MaterializeMerge

MergeSpec == Init /\ [][MergeNext]_vars

\* materialization alone, over the payloads for the reconstruction of time
MaterializeTimes == createDataTable(TimePayloads, ProcessZones)

TimeNext == MaterializeTimes

TimeSpec == Init /\ [][TimeNext]_vars

(***************************************************************************)
(* The datetime utilities.  A date text is the sequence of its parts: the  *)
(* digits of a field, a separator, a time of day ("02:00:00", or "02:00"   *)
(* without seconds), a sign, an offset ("10:00" or "1000"), or Z.          *)
(***************************************************************************)
\* NETWORK_TIMEZONE_OFFSETS
NetworkCodes == {"NEM", "WEM", "AU"}

NETWORK_TIMEZONE_OFFSETS(network) ==
    CASE network = "NEM" -> 10
      [] network = "WEM" -> 8
      [] OTHER -> 10

\* the parts that match \d{4}, \d{2}, \d{2}:\d{2}:\d{2} and \d{2}:?\d{2}
FourDigits == {"2024"}

TwoDigits == {"10", "06"}

SecondsTimes == {"01:00:00", "02:00:00", "03:00:00"}

HourMinutes == {"10:00", "08:00", "05:00", "1000", "02:00"}

\* dateStr.includes("Z") || /[+-]\d{2}:?\d{2}$/.test(dateStr)
isAware(dateStr) ==
    \/ \E i \in 1..Len(dateStr) : dateStr[i] = "Z"
    \/ /\ Len(dateStr) >= 2
       /\ dateStr[Len(dateStr) - 1] \in {"+", "-"}
       /\ dateStr[Len(dateStr)] \in HourMinutes

\* dateStr.match(/^[0-9]{4}-[0-9]{2}-[0-9]{2}T[0-9]{2}:[0-9]{2}:[0-9]{2}/):
\* the matched prefix, or the text itself when there is no match
stripTimezone(dateStr) ==
    IF /\ Len(dateStr) >= 7
       /\ dateStr[1] \in FourDigits /\ dateStr[2] = "-"
       /\ dateStr[3] \in TwoDigits /\ dateStr[4] = "-"
       /\ dateStr[5] \in TwoDigits /\ dateStr[6] = "T"
       /\ dateStr[7] \in SecondsTimes
    THEN SubSeq(dateStr, 1, 7)
    ELSE dateStr

\* the hour of a time of day, and the time of day "HH:mm:ss" of an hour
HourOf(time) ==
    CASE time = "01:00:00" -> 1
      [] time = "02:00:00" -> 2
      [] time = "02:00" -> 2
      [] time = "03:00:00" -> 3
      [] OTHER -> 0

PadTwo(n) == IF n < 10 THEN "0" \o ToString(n) ELSE ToString(n)

FormatTime(hour) == PadTwo(hour) \o ":00:00"

\* The zone of the process: `std` hours east of UTC, and on the day of the
\* texts the clocks go forward one hour at local hour `gap` (-1: never).
\* new Date(y, m, d, h, ...) reads a local time the clocks skip at the
\* offset before the change.
LocalToInstant(hour, zone) ==
    IF zone.gap >= 0 /\ hour > zone.gap
    THEN hour - (zone.std + 1)
    ELSE hour - zone.std

InstantToLocal(instant, zone) ==
    IF zone.gap >= 0 /\ instant >= zone.gap - zone.std
    THEN instant + zone.std + 1
    ELSE instant + zone.std

\* makeAware(date, network): dayjs(date) reads the zone-naive text as local
\* time and format writes the local fields followed by the literal offset
makeAware(date, network, zone) ==
    LET offset == NETWORK_TIMEZONE_OFFSETS(network)
        sign == IF offset >= 0 THEN "+" ELSE "-"
        hours == PadTwo(Abs(offset))
        minutes == "00"
        d == LocalToInstant(HourOf(date[7]), zone)
    IN  SubSeq(date, 1, 6) \o <<FormatTime(InstantToLocal(d, zone))>>
            \o <<sign, hours \o ":" \o minutes>>

\* the interval without .subtract(5, "minute")
IntervalNotSubtracted(now, network) ==
    LET networkTime == now + NETWORK_TIMEZONE_OFFSETS(network) * 3600
        minutes == (networkTime \div 60) % 60
        floored == networkTime - (minutes - (minutes \div 5) * 5) * 60
    IN  floored - (floored % 60)

\* getLastCompleteInterval(network) at the instant `now` (seconds): the
\* network wall clock with the minute floored to a multiple of 5, second 0,
\* less 5 minutes.
LastCompleteInterval(now, network) ==
    LET networkTime == now + NETWORK_TIMEZONE_OFFSETS(network) * 3600
        minutes == (networkTime \div 60) % 60
        floored == networkTime - (minutes - (minutes \div 5) * 5) * 60
    IN  floored - (floored % 60) - 300

\* format("YYYY-MM-DDTHH:mm:ss") of a wall clock counted in seconds
FormatWall(wall) ==
    [ day |-> wall \div 86400, hour |-> (wall \div 3600) % 24,
      minute |-> (wall \div 60) % 60, second |-> wall % 60, zone |-> "" ]

getLastCompleteInterval(now, network) == FormatWall(LastCompleteInterval(now, network))

\* date.split(/[Z+-]/)[0]: the text before the first Z, + or -
RECURSIVE SplitHead(_)
SplitHead(date) ==
    IF date = <<>> \/ Head(date) \in {"Z", "+", "-"} THEN <<>>
    ELSE <<Head(date)>> \o SplitHead(Tail(date))

\* toTimezoneNaiveDate(date, paramName); <<"undefined">> is the absent date
Absent == <<"undefined">>

toTimezoneNaiveDate(date) ==
    IF date = Absent \/ date = <<>> THEN Absent
    ELSE IF isAware(date) THEN SplitHead(date)
    ELSE date

(***************************************************************************)
(* The texts, instants and zones the utilities are called with.            *)
(***************************************************************************)
NaiveTexts ==
    { <<"2024", "-", "10", "-", "06", "T", time>> : time \in SecondsTimes \cup {"02:00"} }

ZoneSuffixes == { <<"Z">>, <<"+", "10:00">>, <<"+", "08:00">>, <<"-", "05:00">>, <<"+", "1000">> }

AwareTexts == { d \o z : d \in NaiveTexts, z \in ZoneSuffixes }

DatetimeZones ==
    { [std |-> 0, gap |-> -1], [std |-> 10, gap |-> -1], [std |-> 10, gap |-> 2] }

\* seconds after midnight UTC of the first day
NowSeconds ==
    { h * 3600 + m * 60 + sec : h \in {10, 13, 14, 23},
                                m \in {0, 2, 4, 15, 17, 19, 57}, sec \in {0, 30, 59} }

(***************************************************************************)
(* The caller of the utilities.                                            *)
(***************************************************************************)
MakeAware ==
    /\ \E date \in {d \in NaiveTexts : d[7] \in SecondsTimes},
          network \in NetworkCodes, zone \in DatetimeZones :
        lastCall' = [NoCall EXCEPT !.op = "makeAware", !.data = date, !.option = network,
                                   !.localZone = zone,
                                   !.value = makeAware(date, network, zone)]
    /\ UNCHANGED <<arrays, tables, calls>>

StripTimezone ==
    /\ \E dateStr \in NaiveTexts \cup AwareTexts :
        lastCall' = [NoCall EXCEPT !.op = "stripTimezone", !.data = dateStr,
                                   !.value = stripTimezone(dateStr)]
    /\ UNCHANGED <<arrays, tables, calls>>

IsAware ==
    /\ \E dateStr \in NaiveTexts \cup AwareTexts :
        lastCall' = [NoCall EXCEPT !.op = "isAware", !.data = dateStr,
                                   !.value = Bool(isAware(dateStr))]
    /\ UNCHANGED <<arrays, tables, calls>>

GetLastCompleteInterval ==
    /\ \E now \in NowSeconds, network \in NetworkCodes :
        lastCall' = [NoCall EXCEPT !.op = "getLastCompleteInterval", !.data = now,
                                   !.option = network,
                                   !.value = getLastCompleteInterval(now, network)]
    /\ UNCHANGED <<arrays, tables, calls>>

ToTimezoneNaiveDate ==
    /\ \E date \in NaiveTexts \cup AwareTexts \cup {Absent} :
        lastCall' = [NoCall EXCEPT !.op = "toTimezoneNaiveDate", !.data = date,
                                   !.value = toTimezoneNaiveDate(date)]
    /\ UNCHANGED <<arrays, tables, calls>>

DatetimeNext ==
    \/ MakeAware
    \/ StripTimezone
    \/ IsAware
    \/ GetLastCompleteInterval
    \/ ToTimezoneNaiveDate

DatetimeSpec == Init /\ [][DatetimeNext]_vars

(***************************************************************************)
(* Vocabulary of the properties.                                           *)
(***************************************************************************)
\* the call just made was a query call that returned a table
Returned(op) == lastCall.op = op /\ lastCall.ret # 0

\* the rows of the receiver and of the result of the last call
RecvRows == RowsOf(lastCall.recv)

RetRows == RowsOf(lastCall.ret)

\* two rows hold equal values (absent counted as undefined) at every listed column
SameAt(a, b, columns) == \A i \in 1..Len(columns) : Get(a, columns[i]) = Get(b, columns[i])

\* the rows of `rows` in the partition of row r: equal to r at every column
PartitionOf(rows, r, columns) == SelectSeq(rows, LAMBDA x : SameAt(x, r, columns))

\* the non-null values a metric has in a sequence of rows
PresentValues(rows, metric) ==
    SelectSeq([i \in 1..Len(rows) |-> Get(rows[i], metric)], LAMBDA v : v.k = "number")

\* the total of a sequence of numbers, 0 for none
RECURSIVE Total(_)
Total(values) ==
    IF values = <<>> THEN Int2Num(0)
    ELSE NumAdd(Head(values), Total(Tail(values)))

\* the grouping key of a data point and of a row, as structures
PointKey(pt, localZone) ==
    <<createNetworkDate(pt.timestamp, pt.offset, localZone), pt.columns>>

KeyOfRow(row, groupings) ==
    <<row["interval"].n, [i \in 1..Len(groupings) |-> <<groupings[i], Get(row, groupings[i])>>]>>

(***************************************************************************)
(* C1.  Materialization folds every data point into the row identified by  *)
(* (reconstructed instant, grouping-key values): each data point is found  *)
(* in the row with its key under its metric name, no two rows have the     *)
(* same interval and grouping-key values, and there are as many rows as    *)
(* distinct keys.                                                          *)
(***************************************************************************)
C1_OneRowPerKey ==
    Returned("createDataTable") =>
        LET pts == DataPoints(lastCall.data)
            rows == RowsOf(1)
            g == tables[1].groupings
            keys == {PointKey(pts[p], lastCall.localZone) : p \in 1..Len(pts)}
        IN  /\ \A i, j \in 1..Len(rows) :
                   i # j => KeyOfRow(rows[i], g) # KeyOfRow(rows[j], g)
            /\ Len(rows) = Cardinality(keys)
            /\ \A p \in 1..Len(pts) : \E i \in 1..Len(rows) :
                   /\ KeyOfRow(rows[i], g) = PointKey(pts[p], lastCall.localZone)
                   /\ pts[p].metric \in DOMAIN rows[i]

(***************************************************************************)
(* C2.  In the materialized table and in every table derived from it,      *)
(* every row has a number or an explicit null for every metric of the      *)
(* table's metrics map.                                                    *)
(***************************************************************************)
C2_EveryMetricInEveryRow ==
    \A t \in 1..Len(tables) : \A r \in 1..Len(RowsOf(t)) :
        \A m \in 1..Len(tables[t].metrics) :
            /\ tables[t].metrics[m][1] \in DOMAIN RowsOf(t)[r]
            /\ RowsOf(t)[r][tables[t].metrics[m][1]].k \in {"number", "null"}

(***************************************************************************)
(* C3.  filter(predicate) returns exactly the receiver's rows for which    *)
(* the predicate holds, in the receiver's order, with the receiver's       *)
(* groupings and metrics.                                                  *)
(***************************************************************************)
C3_FilterExact ==
    Returned("filter") =>
        /\ RetRows = SelectSeq(RecvRows, LAMBDA r : Holds(lastCall.option, r))
        /\ tables[lastCall.ret].groupings = tables[lastCall.recv].groupings
        /\ tables[lastCall.ret].metrics = tables[lastCall.recv].metrics

(***************************************************************************)
(* C4.  The caches and indexes of a table are not observable: a call       *)
(* returns the rows the same call returns on a freshly built table with    *)
(* the receiver's rows, groupings and metrics.                             *)
(***************************************************************************)
FreshTable(i) == NewDataTable(tables[i].rows, RowsOf(i), tables[i].groupings, tables[i].metrics)

C4_CachesUnobservable ==
    /\ Returned("groupBy") =>
           RetRows = groupBy(FreshTable(lastCall.recv), RecvRows,
                             lastCall.columns, lastCall.option).rows
    /\ Returned("sortBy") =>
           RetRows \in SortOutcomes(RecvRows, lastCall.columns, lastCall.option = "true")
    /\ Returned("filter") =>
           RetRows = filter(FreshTable(lastCall.recv), RecvRows, lastCall.option)

(***************************************************************************)
(* C5.  No query operation mutates its receiver: over every query call,    *)
(* every table that existed before keeps its rows (the same sequence, the  *)
(* same field values), its groupings and its metrics, and a table          *)
(* returned by filter, select, sortBy or groupBy is a new object.          *)
(***************************************************************************)
QueryCall == calls' = calls + 1

C5_ReceiverUnchanged ==
    [][QueryCall =>
        /\ \A i \in 1..Len(tables) :
               /\ tables'[i].rows = tables[i].rows
               /\ arrays'[tables'[i].rows] = arrays[tables[i].rows]
               /\ tables'[i].groupings = tables[i].groupings
               /\ tables'[i].metrics = tables[i].metrics
        /\ lastCall'.op \in {"filter", "select", "sortBy", "groupBy"} =>
               /\ lastCall'.ret = Len(tables) + 1
               /\ Len(tables') = Len(tables) + 1
               /\ \A i \in 1..Len(tables) : tables'[lastCall'.ret].rows # tables[i].rows
    ]_vars

\* a sortBy that had to reorder rows returned after another call was made
C5_Witness ==
    /\ calls = 2
    /\ Returned("sortBy")
    /\ RetRows # RecvRows
    /\ Len(RecvRows) >= 2

(***************************************************************************)
(* The aggregate a partition should get: computed from the receiver's rows *)
(* that equal the output row at every grouping column.                     *)
(***************************************************************************)
ExpectedAggregate(rows, r, columns, metric, aggregation) ==
    LET values == PresentValues(PartitionOf(rows, r, columns), metric)
    IN  IF values = <<>> THEN Null
        ELSE IF aggregation = "sum" THEN Total(values)
        ELSE NumDivInt(Total(values), Len(values))

(***************************************************************************)
(* C6.  groupBy(columns, aggregation) emits for every partition and every  *)
(* metric the sum (or the mean) of the partition's non-null values, and    *)
(* null, never an absent key, when the partition has none.                 *)
(***************************************************************************)
C6_AggregatesOfPartitions ==
    Returned("groupBy") =>
        \A j \in 1..Len(RetRows) : \A m \in 1..Len(tables[lastCall.recv].metrics) :
            LET metric == tables[lastCall.recv].metrics[m][1]
            IN  /\ metric \in DOMAIN RetRows[j]
                /\ RetRows[j][metric] =
                       ExpectedAggregate(RecvRows, RetRows[j], lastCall.columns,
                                         metric, lastCall.option)

(***************************************************************************)
(* C7.  groupBy(columns, _) produces exactly one output row per distinct   *)
(* tuple of values at columns among the receiver's rows.                   *)
(***************************************************************************)
TuplesAt(rows, columns) ==
    {[i \in 1..Len(columns) |-> Get(rows[r], columns[i])] : r \in 1..Len(rows)}

C7_OneRowPerTuple ==
    Returned("groupBy") =>
        /\ Len(RetRows) = Cardinality(TuplesAt(RecvRows, lastCall.columns))
        /\ TuplesAt(RetRows, lastCall.columns) = TuplesAt(RecvRows, lastCall.columns)

(***************************************************************************)
(* C8.  Group-by total conservation: for a list C of the receiver's        *)
(* grouping columns and every metric m, the sum of row[m] over the rows of *)
(* groupBy(C, "sum") equals the sum of row[m] over the receiver's rows,    *)
(* nulls ignored on both sides.                                            *)
(***************************************************************************)
OfGroupings(columns, t) == \A i \in 1..Len(columns) : Includes(t.groupings, columns[i])

C8_TotalConservation ==
    (/\ Returned("groupBy")
     /\ lastCall.option = "sum"
     /\ OfGroupings(lastCall.columns, tables[lastCall.recv])) =>
        \A m \in 1..Len(tables[lastCall.recv].metrics) :
            Total(PresentValues(RetRows, tables[lastCall.recv].metrics[m][1]))
                = Total(PresentValues(RecvRows, tables[lastCall.recv].metrics[m][1]))

\* a sum over a partition of two rows with values 1 and 3
C8_Witness ==
    /\ Returned("groupBy")
    /\ lastCall.option = "sum"
    /\ OfGroupings(lastCall.columns, tables[lastCall.recv])
    /\ Len(RecvRows) = 2
    /\ Len(RetRows) = 1
    /\ Get(RetRows[1], "energy") = Int2Num(4)

(***************************************************************************)
(* C9.  Mean bounds: for every partition produced by groupBy(_, "mean")    *)
(* and every metric, the output value lies between the minimum and the     *)
(* maximum of the partition's non-null source values, or is null when the  *)
(* partition has none.                                                     *)
(***************************************************************************)
C9_MeanBounds ==
    (Returned("groupBy") /\ lastCall.option = "mean") =>
        \A j \in 1..Len(RetRows) : \A m \in 1..Len(tables[lastCall.recv].metrics) :
            LET metric == tables[lastCall.recv].metrics[m][1]
                values == PresentValues(
                              PartitionOf(RecvRows, RetRows[j], lastCall.columns), metric)
                out == Get(RetRows[j], metric)
            IN  IF values = <<>> THEN out = Null
                ELSE /\ out.k = "number"
                     /\ \E i \in 1..Len(values) : NumLeq(values[i], out)
                     /\ \E i \in 1..Len(values) : NumLeq(out, values[i])

(***************************************************************************)
(* C10.  The table groupBy(columns, _) returns has columns as its          *)
(* groupings and the receiver's metrics, and each output row carries its   *)
(* partition's value for every listed column and the interval of the       *)
(* partition's first-seen member.                                          *)
(***************************************************************************)
C10_GroupedTableShape ==
    Returned("groupBy") =>
        /\ tables[lastCall.ret].groupings = lastCall.columns
        /\ tables[lastCall.ret].metrics = tables[lastCall.recv].metrics
        /\ \A j \in 1..Len(RetRows) :
               LET members == PartitionOf(RecvRows, RetRows[j], lastCall.columns)
               IN  /\ members # <<>>
                   /\ \A i \in 1..Len(lastCall.columns) :
                          lastCall.columns[i] \in DOMAIN RetRows[j]
                   /\ RetRows[j]["interval"] = members[1]["interval"]

(***************************************************************************)
(* C11.  sortBy([col]) ascending returns a table in which every row whose   *)
(* value in col is null precedes every row whose value is not null, and the *)
(* numbers are non-decreasing from there on; rows that lack the column are  *)
(* among the tables this is stated for.                                     *)
(***************************************************************************)
C11_NullFirstAscending ==
    (Returned("sortBy") /\ Len(lastCall.columns) = 1 /\ lastCall.option = "true") =>
        LET v(i) == Get(RetRows[i], lastCall.columns[1])
        IN  \A i, j \in 1..Len(RetRows) :
                i < j => /\ ~(v(i) # Null /\ v(j) = Null)
                         /\ (IsNum(v(i)) /\ IsNum(v(j))) => NumLeq(v(i), v(j))

(***************************************************************************)
(* The order C12 states: x is smaller than y when x is null and y is not,   *)
(* or neither is null and x < y; row a must precede row b when the first    *)
(* listed column at which they differ holds the smaller value in a (the     *)
(* larger one when descending).                                             *)
(***************************************************************************)
Smaller(x, y) == (x = Null /\ y # Null) \/ (x # Null /\ y # Null /\ LessThan(x, y))

RECURSIVE MustPrecede(_, _, _, _)
MustPrecede(a, b, columns, ascending) ==
    IF columns = <<>> THEN FALSE
    ELSE LET x == Get(a, Head(columns))
             y == Get(b, Head(columns))
         IN  IF x = y THEN MustPrecede(a, b, Tail(columns), ascending)
             ELSE IF ascending THEN Smaller(x, y) ELSE Smaller(y, x)

\* the number of times r occurs in rows
Occurrences(rows, r) == Cardinality({i \in 1..Len(rows) : rows[i] = r})

(***************************************************************************)
(* C12.  sortBy(columns, ascending) orders rows lexicographically over the  *)
(* listed columns, null smaller than every other value, and its output is a *)
(* permutation of the receiver's rows with the receiver's groupings and     *)
(* metrics.                                                                 *)
(***************************************************************************)
C12_LexicographicOrder ==
    Returned("sortBy") =>
        /\ \A i, j \in 1..Len(RetRows) :
               i < j => ~MustPrecede(RetRows[j], RetRows[i], lastCall.columns,
                                     lastCall.option = "true")
        /\ Len(RetRows) = Len(RecvRows)
        /\ \A i \in 1..Len(RecvRows) :
               Occurrences(RetRows, RecvRows[i]) = Occurrences(RecvRows, RecvRows[i])
        /\ tables[lastCall.ret].groupings = tables[lastCall.recv].groupings
        /\ tables[lastCall.ret].metrics = tables[lastCall.recv].metrics

(***************************************************************************)
(* C13.  select(columns) returns as many rows as the receiver has, in the   *)
(* same order; each output row has exactly the key interval and the         *)
(* requested columns its source row has, each with the source row's value.  *)
(***************************************************************************)
C13_SelectProjectsRows ==
    Returned("select") =>
        /\ Len(RetRows) = Len(RecvRows)
        /\ \A i \in 1..Len(RetRows) :
               /\ DOMAIN RetRows[i] =
                      {"interval"} \cup
                      {c \in DOMAIN RecvRows[i] : Includes(lastCall.columns, c)}
               /\ \A c \in DOMAIN RetRows[i] : RetRows[i][c] = RecvRows[i][c]

\* a projection of two rows, one of which lacks a requested column, that
\* drops a column the rows have
C13_Witness ==
    /\ Returned("select")
    /\ Len(RecvRows) = 2
    /\ \E i \in 1..2 : \E c \in 1..Len(lastCall.columns) :
           lastCall.columns[c] \notin DOMAIN RecvRows[i]
    /\ \E i \in 1..2 : \E c \in DOMAIN RecvRows[i] :
           c # "interval" /\ ~Includes(lastCall.columns, c)

(***************************************************************************)
(* C14.  The table select(columns) returns has as groupings the receiver's  *)
(* groupings that appear in columns, in the receiver's order, and as        *)
(* metrics the receiver's entries whose name appears in columns, with their *)
(* units.                                                                   *)
(***************************************************************************)
C14_SelectGroupingsMetrics ==
    Returned("select") =>
        LET recv == tables[lastCall.recv]
            ret == tables[lastCall.ret]
        IN  /\ ret.groupings =
                   SelectSeq(recv.groupings, LAMBDA g : Includes(lastCall.columns, g))
            /\ ret.metrics =
                   SelectSeq(recv.metrics, LAMBDA e : Includes(lastCall.columns, e[1]))

\* the caller lists renewable before network_region, the receiver has them
\* in the other order and the result keeps the receiver's
C14_Witness ==
    /\ Returned("select")
    /\ lastCall.columns = <<"renewable", "network_region", "energy", "emissions">>
    /\ tables[lastCall.recv].groupings = <<"network_region", "renewable">>
    /\ tables[lastCall.ret].groupings = <<"network_region", "renewable">>
    /\ tables[lastCall.ret].metrics = << <<"energy", "MWh">>, <<"emissions", "t">> >>

(***************************************************************************)
(* C15.  Idempotence of projection: selecting all of a table's column names *)
(* (its groupings and its metric names) yields the receiver's rows, field   *)
(* by field; and selecting a column list again on the result of selecting   *)
(* it gives that result.                                                    *)
(***************************************************************************)
C15_SelectIdempotent ==
    Returned("select") =>
        /\ lastCall.columns = ColumnNames(tables[lastCall.recv]) => RetRows = RecvRows
        /\ selectRows(RetRows, lastCall.columns) = RetRows
        /\ selectGroupings(tables[lastCall.ret].groupings, lastCall.columns)
               = tables[lastCall.ret].groupings
        /\ selectMetrics(tables[lastCall.ret].metrics, lastCall.columns)
               = tables[lastCall.ret].metrics

(***************************************************************************)
(* C16.  describe(): for every described column, with v the ascending list  *)
(* of the column's numbers over all rows and n its length, count = n,       *)
(* min = v[0], max = v[n-1], q25 = v[floor(n*0.25)], median =               *)
(* v[floor(n*0.5)], q75 = v[floor(n*0.75)] and mean * n is the sum of v.    *)
(* The element at zero-indexed rank k of the sorted list is the value x of  *)
(* the list with at most k values below it and more than k values not       *)
(* above it.                                                                *)
(***************************************************************************)
AtRank(values, x, k) ==
    /\ \E i \in 1..Len(values) : values[i] = x
    /\ Cardinality({i \in 1..Len(values) : NumLess(values[i], x)}) <= k
    /\ Cardinality({i \in 1..Len(values) : NumLeq(values[i], x)}) > k

C16_DescribeStatistics ==
    lastCall.op = "describe" =>
        \A c \in DOMAIN lastCall.stats :
            LET v == PresentValues(RecvRows, c)
                n == Len(v)
                st == lastCall.stats[c]
            IN  /\ n > 0
                /\ st.count = n
                /\ AtRank(v, st.min, 0)
                /\ AtRank(v, st.max, n - 1)
                /\ AtRank(v, st.q25, n \div 4)
                /\ AtRank(v, st.median, n \div 2)
                /\ AtRank(v, st.q75, (3 * n) \div 4)
                /\ NumMul(st.mean, Int2Num(n)) = Total(v)

\* the values 3, 1, 2 in rows that are not in the order of the values
C16_Witness ==
    /\ lastCall.op = "describe"
    /\ Len(RecvRows) = 3
    /\ Get(RecvRows[1], "energy") = Int2Num(3)
    /\ Get(RecvRows[2], "energy") = Int2Num(1)
    /\ Get(RecvRows[3], "energy") = Int2Num(2)
    /\ "energy" \in DOMAIN lastCall.stats
    /\ lastCall.stats["energy"].count = 3
    /\ lastCall.stats["energy"].min = Int2Num(1)
    /\ lastCall.stats["energy"].q25 = Int2Num(1)
    /\ lastCall.stats["energy"].median = Int2Num(2)
    /\ lastCall.stats["energy"].q75 = Int2Num(3)
    /\ lastCall.stats["energy"].max = Int2Num(3)

(***************************************************************************)
(* C17.  The keys of describe()'s result are exactly the columns that hold  *)
(* a number in the table's first row and have at least one number over all  *)
(* rows; a table without rows gives an empty result and no error.           *)
(***************************************************************************)
C17_DescribedColumns ==
    lastCall.op = "describe" =>
        /\ ~lastCall.threw
        /\ DOMAIN lastCall.stats =
               IF RecvRows = <<>> THEN {}
               ELSE {c \in DOMAIN RecvRows[1] :
                        IsNum(RecvRows[1][c]) /\ PresentValues(RecvRows, c) # <<>>}

\* energy is null in the first row and a number in the second, and is not
\* described
C17_Witness ==
    /\ lastCall.op = "describe"
    /\ Len(RecvRows) = 2
    /\ Get(RecvRows[1], "energy") = Null
    /\ IsNum(Get(RecvRows[2], "energy"))
    /\ "energy" \notin DOMAIN lastCall.stats

(***************************************************************************)
(* C18.  getLatestTimestamp() on a table with rows returns the greatest     *)
(* interval of the rows, and what the table keeps for later calls is that   *)
(* value: a later call on the same table returns it again.                  *)
(***************************************************************************)
IsLatest(rows, value) ==
    /\ IsNum(value)
    /\ value.d = 1
    /\ \E i \in 1..Len(rows) : rows[i]["interval"].n = value.n
    /\ \A i \in 1..Len(rows) : rows[i]["interval"].n <= value.n

C18_LatestTimestamp ==
    /\ (lastCall.op = "getLatestTimestamp" /\ RecvRows # <<>>) =>
           /\ IsLatest(RecvRows, lastCall.value)
           /\ tables[lastCall.recv].cache.latestTimestamp = lastCall.value
    /\ \A t \in 1..Len(tables) :
           (RowsOf(t) # <<>> /\ tables[t].cache.latestTimestamp # Undefined) =>
               IsLatest(RowsOf(t), tables[t].cache.latestTimestamp)

\* the latest interval is not in the last row of the receiver
C18_Witness ==
    /\ lastCall.op = "getLatestTimestamp"
    /\ Len(RecvRows) = 2
    /\ RecvRows[1]["interval"].n > RecvRows[2]["interval"].n
    /\ lastCall.value = Int2Num(RecvRows[1]["interval"].n)

(***************************************************************************)
(* C19.  getLatestTimestamp() on a table without rows is guarded: it        *)
(* signals an error and returns no sentinel value.                          *)
(***************************************************************************)
C19_EmptyLatestGuarded ==
    (lastCall.op = "getLatestTimestamp" /\ RecvRows = <<>>) => lastCall.threw

(***************************************************************************)
(* C20.  On a table without rows, filter, select, sortBy and groupBy (sum   *)
(* and mean) each return a table without rows and do not raise.             *)
(***************************************************************************)
C20_EmptyTableOperations ==
    (lastCall.op \in {"filter", "select", "sortBy", "groupBy"} /\ RecvRows = <<>>) =>
        /\ ~lastCall.threw
        /\ lastCall.ret # 0
        /\ RetRows = <<>>

\* a mean over the groups of a table a filter left without rows
C20_Witness ==
    /\ Returned("groupBy")
    /\ lastCall.option = "mean"
    /\ RecvRows = <<>>
    /\ RetRows = <<>>
    /\ calls = 2

(***************************************************************************)
(* Vocabulary of the reconstruction of time.                               *)
(***************************************************************************)
\* the instant of a point's wall-clock reading taken at the network offset
NetworkInstant(pt) == pt.timestamp.wall - OffsetHours(pt.offset)

\* some row of the materialized table is at the instant
RowAt(instant) == \E i \in 1..Len(RowsOf(1)) : RowsOf(1)[i]["interval"].n = instant

(***************************************************************************)
(* C21.  A zone-naive timestamp is reconstructed as its wall-clock reading  *)
(* minus the supplied UTC offset, whatever the zone of the process: the    *)
(* row of every such point is at that instant.                             *)
(***************************************************************************)
C21_NaiveInstantInEveryZone ==
    Returned("createDataTable") =>
        \A p \in 1..Len(DataPoints(lastCall.data)) :
            LET pt == DataPoints(lastCall.data)[p]
            IN  pt.timestamp.zone = "" => RowAt(NetworkInstant(pt))

(***************************************************************************)
(* C22.  A timestamp that carries a zone tag (Z, +HH:MM or +HHMM) has the   *)
(* tag discarded and its wall-clock reading taken at the network offset:   *)
(* the row of every such point is at that instant.                         *)
(***************************************************************************)
C22_ZoneTagReinterpreted ==
    Returned("createDataTable") =>
        \A p \in 1..Len(DataPoints(lastCall.data)) :
            LET pt == DataPoints(lastCall.data)[p]
            IN  pt.timestamp.zone \in {"Z", "+10:00", "+0800"} => RowAt(NetworkInstant(pt))

(***************************************************************************)
(* C24.  A payload with a timestamp that cannot be parsed makes            *)
(* materialization fail with an error: no table is returned and no row is  *)
(* stored.                                                                 *)
(***************************************************************************)
C24_MalformedTimestampFails ==
    ( /\ lastCall.op = "createDataTable"
      /\ \E p \in 1..Len(DataPoints(lastCall.data)) :
             InvalidDate(DataPoints(lastCall.data)[p].timestamp) ) =>
        /\ lastCall.threw
        /\ lastCall.ret = 0
        /\ tables = <<>>
        /\ arrays = <<>>

\* the failure comes after a point with a good timestamp was merged
C24_Witness ==
    /\ lastCall.op = "createDataTable"
    /\ lastCall.threw
    /\ Len(DataPoints(lastCall.data)) = 2
    /\ DataPoints(lastCall.data)[1].timestamp = [wall |-> 24, zone |-> ""]
    /\ InvalidDate(DataPoints(lastCall.data)[2].timestamp)
    /\ tables = <<>>

(***************************************************************************)
(* C23.  The rows of the materialized table are in ascending order of      *)
(* interval, and rows of one interval are in the order in which they were  *)
(* first created while the payload was read.                               *)
(***************************************************************************)
\* the point made the row: it is at the row's instant with the row's columns
MadeBy(row, pt, localZone) ==
    /\ createNetworkDate(pt.timestamp, pt.offset, localZone) = row["interval"].n
    /\ \A c \in 1..Len(pt.columns) : Get(row, pt.columns[c][1]) = pt.columns[c][2]

\* the position in the payload of the first point that made the row
CreatedAt(row, pts, localZone) ==
    CHOOSE p \in 1..Len(pts) :
        /\ MadeBy(row, pts[p], localZone)
        /\ \A q \in 1..(p - 1) : ~MadeBy(row, pts[q], localZone)

C23_AscendingByIntervalStable ==
    Returned("createDataTable") =>
        LET pts == DataPoints(lastCall.data)
            rows == RowsOf(1)
        IN  \A i, j \in 1..Len(rows) : i < j =>
                /\ rows[i]["interval"].n <= rows[j]["interval"].n
                /\ rows[i]["interval"].n = rows[j]["interval"].n =>
                       CreatedAt(rows[i], pts, lastCall.localZone)
                           < CreatedAt(rows[j], pts, lastCall.localZone)

\* two rows of one interval, the one of the block read first in front
C23_Witness ==
    /\ Returned("createDataTable")
    /\ Len(RowsOf(1)) = 2
    /\ RowsOf(1)[1]["interval"] = RowsOf(1)[2]["interval"]
    /\ RowsOf(1)[1]["network_region"] = Str("QLD1")
    /\ RowsOf(1)[2]["network_region"] = Str("NSW1")
    /\ DataPoints(lastCall.data)[1].columns = ColumnsOf("QLD1", Bool(FALSE))

(***************************************************************************)
(* C29.  createDataTable of an empty list of series returns a table with   *)
(* no rows, no groupings and no metrics, and does not raise.               *)
(***************************************************************************)
C29_EmptyPayloadEmptyTable ==
    (lastCall.op = "createDataTable" /\ lastCall.data = <<>>) =>
        /\ ~lastCall.threw
        /\ lastCall.ret = 1
        /\ Len(tables) >= 1
        /\ RowsOf(1) = <<>>
        /\ tables[1].groupings = <<>>
        /\ tables[1].metrics = <<>>

(***************************************************************************)
(* C30.  When a payload gives a value more than once for one instant, one  *)
(* combination of column values and one metric, there is a single row for  *)
(* them, it holds the value given last (a number or null), and its other   *)
(* metrics are as their own points left them.                              *)
(***************************************************************************)
\* the value the payload gives last for the key and the metric
LastValue(pts, key, metric, localZone) ==
    LET mine == SelectSeq(pts, LAMBDA pt :
                    pt.metric = metric /\ PointKey(pt, localZone) = key)
    IN  mine[Len(mine)].value

\* the payload gives a value more than once for the key and metric of point p
GivenAgain(pts, p, localZone) ==
    \E q \in 1..Len(pts) :
        /\ q # p
        /\ pts[q].metric = pts[p].metric
        /\ PointKey(pts[q], localZone) = PointKey(pts[p], localZone)

C30_LastWriteWins ==
    Returned("createDataTable") =>
        LET pts == DataPoints(lastCall.data)
            rows == RowsOf(1)
            z == lastCall.localZone
        IN  \A p \in 1..Len(pts) : GivenAgain(pts, p, z) =>
                /\ Cardinality({i \in 1..Len(rows) : MadeBy(rows[i], pts[p], z)}) = 1
                /\ \A i \in 1..Len(rows) : MadeBy(rows[i], pts[p], z) =>
                       \A q \in 1..Len(pts) : PointKey(pts[q], z) = PointKey(pts[p], z) =>
                           Get(rows[i], pts[q].metric)
                               = LastValue(pts, PointKey(pts[p], z), pts[q].metric, z)

(***************************************************************************)
(* C27.  A derived table shares no row list with the table it was derived  *)
(* from: when the consumer removes or reorders entries of the list one     *)
(* table's getRows() returned, every other table keeps its rows, and a     *)
(* sortBy or groupBy on it returns what it would have returned before.     *)
(***************************************************************************)
\* the row lists a sortBy(columns, ascending) on table t can return
SortByResults(heap, t, columns, ascending) ==
    IF MapHas(t.cache.sortedRows, SortCacheKey(columns, ascending))
    THEN {heap[MapGet(t.cache.sortedRows, SortCacheKey(columns, ascending))]}
    ELSE SortOutcomes(heap[t.rows], columns, ascending)

C27_NoSharedRowList ==
    [][lastCall'.op = "getRows" =>
        \A j \in 1..Len(tables) : j # lastCall'.recv =>
            /\ arrays'[tables'[j].rows] = arrays[tables[j].rows]
            /\ \A columns \in SortColumns, ascending \in BOOLEAN :
                   SortByResults(arrays', tables'[j], columns, ascending)
                       = SortByResults(arrays, tables[j], columns, ascending)
            /\ \A columns \in GroupColumns, aggregation \in Aggregations :
                   groupBy(tables'[j], arrays'[tables'[j].rows], columns, aggregation).rows
                       = groupBy(tables[j], arrays[tables[j].rows], columns, aggregation).rows]_vars

(***************************************************************************)
(* Vocabulary of the datetime utilities.                                   *)
(***************************************************************************)
\* the text ends in Z or in a sign and HH:MM
EndsInZone(text) ==
    \/ text[Len(text)] = "Z"
    \/ Len(text) >= 2 /\ text[Len(text) - 1] \in {"+", "-"}
                       /\ text[Len(text)] \in {"10:00", "08:00", "05:00"}

\* the offset text of a network: +10:00 for NEM and AU, +08:00 for WEM
OffsetText(network) == IF network = "WEM" THEN <<"+", "08:00">> ELSE <<"+", "10:00">>

\* the text without its zone suffix
WithoutZone(text) ==
    IF text[Len(text)] = "Z" THEN SubSeq(text, 1, Len(text) - 1)
    ELSE IF Len(text) >= 2 /\ text[Len(text) - 1] \in {"+", "-"}
         THEN SubSeq(text, 1, Len(text) - 2)
         ELSE text

(***************************************************************************)
(* C25.  makeAware(d, n) of a zone-naive text d is d followed by the       *)
(* network's offset, isAware of it is true and stripTimezone of it is d;   *)
(* isAware(stripTimezone(x)) is false for every x that ends in Z or in     *)
(* +HH:MM.                                                                 *)
(***************************************************************************)
C25_AwareRoundTrip ==
    /\ lastCall.op = "makeAware" =>
           /\ lastCall.value = lastCall.data \o OffsetText(lastCall.option)
           /\ isAware(lastCall.value)
           /\ stripTimezone(lastCall.value) = lastCall.data
    /\ (lastCall.op = "stripTimezone" /\ EndsInZone(lastCall.data)) =>
           ~isAware(lastCall.value)

(***************************************************************************)
(* C26.  getLastCompleteInterval(n) at the instant t is the network wall   *)
(* clock of t floored to a multiple of 5 minutes, less 5 minutes, written  *)
(* without a zone suffix: its second is 0, its minute a multiple of 5, and *)
(* it is at least 5 and less than 10 minutes before the network time of t. *)
(***************************************************************************)
C26_LastCompleteInterval ==
    lastCall.op = "getLastCompleteInterval" =>
        LET networkNow == lastCall.data + NETWORK_TIMEZONE_OFFSETS(lastCall.option) * 3600
            out == lastCall.value
            wall == out.day * 86400 + out.hour * 3600 + out.minute * 60 + out.second
        IN  /\ out.zone = ""
            /\ out.second = 0
            /\ out.minute % 5 = 0
            /\ wall = (networkNow \div 300) * 300 - 300
            /\ networkNow - wall >= 300
            /\ networkNow - wall < 600

\* at 10:17:00Z the interval of NEM is 20:10:00 of the same day
C26_Witness ==
    /\ lastCall.op = "getLastCompleteInterval"
    /\ lastCall.data = 10 * 3600 + 17 * 60
    /\ lastCall.option = "NEM"
    /\ lastCall.value = [day |-> 0, hour |-> 20, minute |-> 10, second |-> 0, zone |-> ""]

(***************************************************************************)
(* C28.  toTimezoneNaiveDate returns a date with zone information without  *)
(* its zone suffix and otherwise as it is, a zone-naive date unchanged,    *)
(* and an absent date absent.                                              *)
(***************************************************************************)
C28_OnlyZoneSuffixRemoved ==
    lastCall.op = "toTimezoneNaiveDate" =>
        IF lastCall.data = Absent THEN lastCall.value = Absent
        ELSE lastCall.value = WithoutZone(lastCall.data)

====
